---- MODULE Spec2Model ----
(***************************************************************************)
(* The deep-research pipeline of research_manager.py: the async generator  *)
(* ResearchManager.run (plan -> parallel search -> write -> email), the    *)
(* fan-out/fan-in of perform_searches, the per-item failure isolation of   *)
(* search, and the send_email tool of email_agent.py.                      *)
(*                                                                         *)
(* A run is an async generator: it advances only when its consumer asks    *)
(* for the next chunk, runs up to the next await of an external call, and  *)
(* on the call's resolution runs on to the next yield.  Every external     *)
(* call (planner, search, writer, email agent, email provider) is a        *)
(* nondeterministic choice over what the collaborator can answer.          *)
(***************************************************************************)
EXTENDS Naturals, Sequences, FiniteSets, TLC

\* Largest plan the planner is let to return (the planner is asked for
\* HOW_MANY_SEARCHES terms, but the count it returns is its own).
MaxN == 2

\* Runs of the pipeline: each is one call of run(query) on a fresh
\* ResearchManager().
Runs == {1, 2}

Queries == {"q1", "q2"}
TraceIds == {"t1", "t2"}
Reports == {"rA", "rB"}
ProviderStatuses == {202, 500}

None == "None"
Exc == "Exception"

\* ---------------------------------------------------------------- data

\* writer_agent.py: the three required fields of ReportData.
ReportFields == {"short_summary", "markdown_report", "follow_up_questions"}

NoReport == [fields |-> {}, markdown_report |-> ""]

\* What the writing capability can answer: an object with all three fields,
\* or one that lacks a field.
WriterResponses ==
    {[fields |-> ReportFields, markdown_report |-> m] : m \in Reports}
      \cup {[fields |-> ReportFields \ {f}, markdown_report |-> ""] :
              f \in {"markdown_report"}}
      \cup {[fields |-> ReportFields \ {f}, markdown_report |-> m] :
              f \in {"short_summary"}, m \in {"rA"}}

\* Faulty variant: the writer's answer is used without validation.
ValidReportUnchecked(resp) == TRUE

\* The output_type=ReportData contract of writer_agent: every field present.
ValidReport(resp) == resp.fields = ReportFields

\* ---------------------------------------------------------------- chunks

TraceChunk(id) == "View trace: https://platform.openai.com/traces/trace?trace_id=" \o id
PlannedMsg == "Searches planned, starting to search..."
SearchedMsg == "Searches complete, writing report..."
WrittenMsg == "Report written, sending email..."
EmailedMsg == "Email sent, research complete"

\* ---------------------------------------------------------------- state

VARIABLES
    pc,          \* position of each run's generator
    query,       \* the argument of run(query)
    traceId,     \* gen_trace_id()
    plan,        \* search_plan.searches, as the sequence of its items
    planOutcome, \* how the planner call resolved
    tasks,       \* perform_searches: the tasks list, one record per item
    order,       \* the order in which the tasks completed (as_completed)
    results,     \* perform_searches: results
    numCompleted,\* perform_searches: num_completed
    ticks,       \* the "Searching... c/t completed" lines printed
    chunks,      \* the chunks run() has yielded to its consumer
    writerInput, \* input_data of write_report
    writerResp,  \* what the writing capability answered
    report,      \* the ReportData write_report returned
    writeOutcome,\* how the writer call resolved
    notifyCalls, \* number of calls of ResearchManager.send_email
    emailInput,  \* the input handed to the email agent
    toolLog,     \* provider status and result of each send_email tool call
    emailOutcome,\* how the email agent call resolved
    failedFrom   \* the stage in which an exception left run()

vars == <<pc, query, traceId, plan, planOutcome, tasks, order, results,
          numCompleted, ticks, chunks, writerInput, writerResp, report,
          writeOutcome,
          notifyCalls, emailInput, toolLog, emailOutcome, failedFrom>>

searchVars == <<tasks, order, results, numCompleted, ticks>>
writeVars == <<writerInput, writerResp, report, writeOutcome>>
emailVars == <<notifyCalls, emailInput, toolLog, emailOutcome>>
planVars == <<plan, planOutcome>>
idVars == <<query, traceId>>

\* The Orchestrator state a generator position belongs to.
Stage(r) ==
    CASE pc[r] = "idle" -> "START"
      [] pc[r] \in {"y_trace", "planning"} -> "PLANNING"
      [] pc[r] \in {"y_planned", "searching"} -> "SEARCHING"
      [] pc[r] \in {"y_searched", "writing"} -> "WRITING"
      [] pc[r] \in {"y_written", "notifying"} -> "NOTIFYING"
      [] pc[r] \in {"y_emailed", "y_report", "done"} -> "DONE"
      [] pc[r] = "failed" -> "FAILED"

Terminated(r) == pc[r] \in {"done", "failed"}

Init ==
    /\ pc = [r \in Runs |-> "idle"]
    /\ query = [r \in Runs |-> None]
    /\ traceId = [r \in Runs |-> None]
    /\ plan = [r \in Runs |-> <<>>]
    /\ planOutcome = [r \in Runs |-> None]
    /\ tasks = [r \in Runs |-> <<>>]
    /\ order = [r \in Runs |-> <<>>]
    /\ results = [r \in Runs |-> <<>>]
    /\ numCompleted = [r \in Runs |-> 0]
    /\ ticks = [r \in Runs |-> <<>>]
    /\ chunks = [r \in Runs |-> <<>>]
    /\ writerInput = [r \in Runs |-> None]
    /\ writerResp = [r \in Runs |-> NoReport]
    /\ report = [r \in Runs |-> NoReport]
    /\ writeOutcome = [r \in Runs |-> None]
    /\ notifyCalls = [r \in Runs |-> 0]
    /\ emailInput = [r \in Runs |-> None]
    /\ toolLog = [r \in Runs |-> <<>>]
    /\ emailOutcome = [r \in Runs |-> None]
    /\ failedFrom = [r \in Runs |-> None]

\* Faulty variant: the exception is swallowed inside run(): the stream just ends.
RaiseSwallowed(r, stage) ==
    /\ pc' = [pc EXCEPT ![r] = "done"]
    /\ failedFrom' = [failedFrom EXCEPT ![r] = stage]
    /\ UNCHANGED chunks

\* Faulty variant: on an exception run() starts over from planning.
RaiseRetry(r, stage) ==
    /\ pc' = [pc EXCEPT ![r] = "y_trace"]
    /\ failedFrom' = [failedFrom EXCEPT ![r] = stage]
    /\ UNCHANGED chunks

\* Faulty variant: run() catches the exception and yields an error text.
RaiseWithMessage(r, stage) ==
    /\ pc' = [pc EXCEPT ![r] = "failed"]
    /\ failedFrom' = [failedFrom EXCEPT ![r] = stage]
    /\ chunks' = [chunks EXCEPT ![r] = Append(@, "Error in " \o stage)]

\* An exception leaves run(): nothing is yielded, the consumer's request
\* raises.
Raise(r, stage) ==
    /\ pc' = [pc EXCEPT ![r] = "failed"]
    /\ failedFrom' = [failedFrom EXCEPT ![r] = stage]
    /\ UNCHANGED chunks

\* deep_research.run: every chunk of ResearchManager().run(query) is
\* yielded on to the UI as it is.
Forward(chunk) == chunk

\* Faulty variant: run() moves on without yielding the chunk.
YieldSilent(r, chunk, at) ==
    /\ pc' = [pc EXCEPT ![r] = at]
    /\ UNCHANGED <<chunks, failedFrom>>

\* run() reaches a yield: the chunk goes to the waiting consumer.
Yield(r, chunk, at) ==
    /\ pc' = [pc EXCEPT ![r] = at]
    /\ chunks' = [chunks EXCEPT ![r] = Append(@, Forward(chunk))]
    /\ UNCHANGED failedFrom

\* ---------------------------------------------------------------- run: start

\* The consumer calls run(query) and asks for the first chunk: lines 46-50.
Start(r) ==
    /\ pc[r] = "idle"
    /\ \E q \in Queries, t \in TraceIds :
         /\ query' = [query EXCEPT ![r] = q]
         /\ traceId' = [traceId EXCEPT ![r] = t]
         /\ Yield(r, TraceChunk(t), "y_trace")
    /\ UNCHANGED <<planVars, searchVars, writeVars, emailVars>>

\* ---------------------------------------------------------------- plan

\* The consumer asks for the next chunk: run() calls plan_searches, which
\* awaits the planner.
RequestPlan(r) ==
    /\ pc[r] = "y_trace"
    /\ pc' = [pc EXCEPT ![r] = "planning"]
    /\ UNCHANGED <<idVars, planVars, searchVars, chunks, writeVars, emailVars,
                   failedFrom>>

\* planner_agent.WebSearchItem: the i-th search term planned for a query.
Item(q, i) == [query |-> q \o "#" \o ToString(i), reason |-> "reason"]

\* The planner returns a WebSearchPlan of n items; run() yields.
PlanReturn(r) ==
    /\ pc[r] = "planning"
    /\ \E n \in 0..MaxN :
         /\ plan' = [plan EXCEPT ![r] = [i \in 1..n |-> Item(query[r], i)]]
         /\ planOutcome' = [planOutcome EXCEPT ![r] = "ok"]
    /\ Yield(r, PlannedMsg, "y_planned")
    /\ UNCHANGED <<idVars, searchVars, writeVars, emailVars>>

\* The planner call errors, or its answer is no WebSearchPlan: the
\* exception propagates out of plan_searches and out of run().
PlanFail(r) ==
    /\ pc[r] = "planning"
    /\ \E kind \in {"error", "invalid"} :
         planOutcome' = [planOutcome EXCEPT ![r] = kind]
    /\ Raise(r, "PLANNING")
    /\ UNCHANGED <<idVars, plan, searchVars, writeVars, emailVars>>

\* ---------------------------------------------------------------- search

\* The summary the search agent returns for an item: str(result.final_output).
Summary(item) == "summary of " \o item.query

\* Faulty variant: a failed search is replaced by an empty placeholder summary.
search_placeholder(item, outcome) ==
    IF outcome = "raise" THEN "" ELSE Summary(item)

\* Faulty variant: search without its try/except: the error of the call becomes
\* the task's exception.
search_nocatch(item, outcome) ==
    IF outcome = "raise" THEN Exc ELSE Summary(item)

\* ResearchManager.search: the try/except around the search agent's call.
\* An error of the call is caught and becomes None.
search(item, outcome) ==
    IF outcome = "raise" THEN None ELSE Summary(item)

\* Faulty variant: the list is overwritten by the latest result.
AppendResultLast(rs, result) ==
    IF result # None THEN <<result>> ELSE rs

\* Faulty variant: a new result is put in front of the list.
AppendResultFront(rs, result) ==
    IF result # None THEN <<result>> \o rs ELSE rs

\* Faulty variant: every result is kept, None included.
AppendResultAlways(rs, result) == Append(rs, result)

\* perform_searches, lines 108-109: a None result is dropped.
AppendResult(rs, result) ==
    IF result # None THEN Append(rs, result) ELSE rs

\* Faulty variant: the loop never sees that every task has been awaited.
LoopDoneNever(nc, total) == FALSE

\* Faulty variant: the loop returns as soon as one task has been awaited.
LoopDoneEarly(nc, total) == nc >= 1 \/ total = 0

\* perform_searches, line 106: the as_completed loop ends when every one
\* of the tasks has been awaited.
LoopDone(nc, total) == nc = total

\* Faulty variant: the line is printed before the counter is incremented.
TickStale(nc, total) == [completed |-> nc - 1, total |-> total]

\* perform_searches, line 111: the progress line.
Tick(nc, total) == [completed |-> nc, total |-> total]

NewTask == [done |-> FALSE, outcome |-> None, result |-> None]

\* Faulty variant: the results list is kept across calls: a call starts from the
\* list the previous run left behind.
SharedResults(r) ==
    IF \E p \in Runs : p < r
      THEN results[CHOOSE p \in Runs : p < r /\ \A o \in Runs : o < r => o <= p]
      ELSE <<>>

\* Faulty variant: the counter is kept across calls: a call counts on from
\* where the previous run's counter stands.
SharedCount(r) ==
    IF \E p \in Runs : p < r
      THEN numCompleted[CHOOSE p \in Runs : p < r /\ \A o \in Runs : o < r => o <= p]
      ELSE 0

\* perform_searches, line 102: every call starts its own counter at zero.
InitialCount(r) == 0

\* perform_searches, line 104: every call starts from its own empty list.
EmptyResults(r) == <<>>

\* The consumer asks for the next chunk: run() calls perform_searches,
\* which creates one task per item (line 103) and awaits the first
\* completion; with no task the loop body never runs and run() yields.
RequestSearch(r) ==
    /\ pc[r] = "y_planned"
    /\ tasks' = [tasks EXCEPT ![r] = [i \in 1..Len(plan[r]) |-> NewTask]]
    /\ results' = [results EXCEPT ![r] = EmptyResults(r)]
    /\ numCompleted' = [numCompleted EXCEPT ![r] = InitialCount(r)]
    /\ IF LoopDone(0, Len(plan[r]))
         THEN Yield(r, SearchedMsg, "y_searched")
         ELSE /\ pc' = [pc EXCEPT ![r] = "searching"]
              /\ UNCHANGED <<chunks, failedFrom>>
    /\ UNCHANGED <<idVars, planVars, order, ticks, writeVars, emailVars>>

\* The search agent's call of task i resolves with `outcome`; search()
\* returns and the task completes.
SearchResolve(r, i, outcome) ==
    /\ i \in 1..Len(tasks[r])
    /\ ~tasks[r][i].done
    /\ tasks' = [tasks EXCEPT ![r][i] =
                   [done |-> TRUE, outcome |-> outcome,
                    result |-> search(plan[r][i], outcome)]]
    /\ order' = [order EXCEPT ![r] = Append(@, i)]
    /\ UNCHANGED <<pc, idVars, planVars, results, numCompleted, ticks, chunks,
                   writeVars, emailVars, failedFrom>>

SearchOk(r) == \E i \in 1..MaxN : SearchResolve(r, i, "ok")

SearchFail(r) == \E i \in 1..MaxN : SearchResolve(r, i, "raise")

\* One turn of the as_completed loop (lines 106-111): await the next
\* completed task, keep its result, count it, print the progress line;
\* after the last task perform_searches returns and run() yields.
Collect(r) ==
    /\ pc[r] = "searching"
    /\ numCompleted[r] < Len(order[r])
    /\ LET result == tasks[r][order[r][numCompleted[r] + 1]].result
           nc == numCompleted[r] + 1
       IN IF result = Exc
            THEN /\ Raise(r, "SEARCHING")
                 /\ UNCHANGED <<results, numCompleted, ticks>>
            ELSE /\ results' = [results EXCEPT ![r] = AppendResult(@, result)]
                 /\ numCompleted' = [numCompleted EXCEPT ![r] = nc]
                 /\ ticks' = [ticks EXCEPT ![r] =
                                Append(@, Tick(nc, Len(tasks[r])))]
                 /\ IF LoopDone(nc, Len(tasks[r]))
                      THEN Yield(r, SearchedMsg, "y_searched")
                      ELSE UNCHANGED <<pc, chunks, failedFrom>>
    /\ UNCHANGED <<idVars, planVars, tasks, order, writeVars, emailVars>>

\* ---------------------------------------------------------------- write

\* write_report, line 152: input_data, the query and the list of summaries.
WriterInput(q, rs) == [query |-> q, results |-> rs]

\* The consumer asks for the next chunk: run() calls write_report, which
\* awaits the writer.
RequestWrite(r) ==
    /\ pc[r] = "y_searched"
    /\ pc' = [pc EXCEPT ![r] = "writing"]
    /\ writerInput' = [writerInput EXCEPT ![r] = WriterInput(query[r], results[r])]
    /\ UNCHANGED <<idVars, planVars, searchVars, chunks, writerResp, report,
                   writeOutcome, emailVars, failedFrom>>

\* The writer answers with a ReportData; run() yields.
WriteReturn(r) ==
    /\ pc[r] = "writing"
    /\ \E resp \in WriterResponses :
         /\ ValidReport(resp)
         /\ writerResp' = [writerResp EXCEPT ![r] = resp]
         /\ report' = [report EXCEPT ![r] = resp]
    /\ writeOutcome' = [writeOutcome EXCEPT ![r] = "ok"]
    /\ Yield(r, WrittenMsg, "y_written")
    /\ UNCHANGED <<idVars, planVars, searchVars, writerInput, emailVars>>

\* The writer's answer does not validate as ReportData, or the call
\* errors: the exception propagates out of write_report and out of run().
WriteFail(r) ==
    /\ pc[r] = "writing"
    /\ \/ /\ \E resp \in WriterResponses :
               /\ ~ValidReport(resp)
               /\ writerResp' = [writerResp EXCEPT ![r] = resp]
          /\ writeOutcome' = [writeOutcome EXCEPT ![r] = "invalid"]
       \/ /\ writeOutcome' = [writeOutcome EXCEPT ![r] = "error"]
          /\ UNCHANGED writerResp
    /\ Raise(r, "WRITING")
    /\ UNCHANGED <<idVars, planVars, searchVars, writerInput, report, emailVars>>

\* ---------------------------------------------------------------- email

\* Faulty variant: the tool reports the provider's status to its caller.
send_email_reflect(status) ==
    [status |-> IF status >= 400 THEN "error" ELSE "success"]

\* email_agent.send_email: the provider's status code is printed and the
\* tool answers {"status": "success"} whatever it is.
send_email(status) == [status |-> "success"]

\* Faulty variant: the email step is skipped.
CountNotifySkipped(n) == n

\* run(), line 67: the report is handed to ResearchManager.send_email.
CountNotify(n) == n + 1

\* The consumer asks for the next chunk: run() calls send_email, which
\* awaits the email agent.
RequestEmail(r) ==
    /\ pc[r] = "y_written"
    /\ pc' = [pc EXCEPT ![r] = "notifying"]
    /\ notifyCalls' = [notifyCalls EXCEPT ![r] = CountNotify(@)]
    /\ emailInput' = [emailInput EXCEPT ![r] = report[r].markdown_report]
    /\ UNCHANGED <<idVars, planVars, searchVars, chunks, writeVars, toolLog,
                   emailOutcome, failedFrom>>

\* The email agent invokes its send_email tool; the provider answers with
\* a status code.
EmailTool(r) ==
    /\ pc[r] = "notifying"
    /\ toolLog[r] = <<>>
    /\ \E s \in ProviderStatuses :
         toolLog' = [toolLog EXCEPT ![r] =
                       Append(@, [provider |-> s, result |-> send_email(s)])]
    /\ UNCHANGED <<pc, idVars, planVars, searchVars, chunks, writeVars,
                   notifyCalls, emailInput, emailOutcome, failedFrom>>

\* The email agent's call returns; run() yields.
EmailReturn(r) ==
    /\ pc[r] = "notifying"
    /\ emailOutcome' = [emailOutcome EXCEPT ![r] = "ok"]
    /\ Yield(r, EmailedMsg, "y_emailed")
    /\ UNCHANGED <<idVars, planVars, searchVars, writeVars, notifyCalls,
                   emailInput, toolLog>>

\* The email agent's call raises: send_email has no try/except, so the
\* exception propagates out of run().
EmailRaise(r) ==
    /\ pc[r] = "notifying"
    /\ emailOutcome' = [emailOutcome EXCEPT ![r] = "error"]
    /\ Raise(r, "NOTIFYING")
    /\ UNCHANGED <<idVars, planVars, searchVars, writeVars, notifyCalls,
                   emailInput, toolLog>>

\* ---------------------------------------------------------------- finish

\* run(), line 71: the final chunk.
FinalChunk(rep) == rep.markdown_report

\* The consumer asks for the next chunk: run() yields the report text.
RequestReport(r) ==
    /\ pc[r] = "y_emailed"
    /\ Yield(r, FinalChunk(report[r]), "y_report")
    /\ UNCHANGED <<idVars, planVars, searchVars, writeVars, emailVars>>

\* The consumer asks once more: run() returns, the stream is over.
RequestEnd(r) ==
    /\ pc[r] = "y_report"
    /\ pc' = [pc EXCEPT ![r] = "done"]
    /\ UNCHANGED <<idVars, planVars, searchVars, chunks, writeVars, emailVars,
                   failedFrom>>

\* ---------------------------------------------------------------- spec

\* One step of run r: of its consumer, of one of its external calls, or
\* of its as_completed loop.
Step(r) ==
    \/ Start(r)
    \/ RequestPlan(r)
    \/ PlanReturn(r)
    \/ PlanFail(r)
    \/ RequestSearch(r)
    \/ SearchOk(r)
    \/ SearchFail(r)
    \/ Collect(r)
    \/ RequestWrite(r)
    \/ WriteReturn(r)
    \/ WriteFail(r)
    \/ RequestEmail(r)
    \/ EmailTool(r)
    \/ EmailReturn(r)
    \/ EmailRaise(r)
    \/ RequestReport(r)
    \/ RequestEnd(r)

FirstRun == CHOOSE r \in Runs : \A p \in Runs : r <= p

\* One run of the pipeline.
Next == Step(FirstRun)

Spec == Init /\ [][Next]_vars

\* Runs one after the other: a run is started once the runs before it
\* have ended.
Turn(r) == \A p \in Runs : p < r => Terminated(p)

\* Deterministic stubs in place of the external collaborators: any two
\* calls with the same input have been given the same answer.  The inputs
\* are: nothing for gen_trace_id, the query for the planner (line 86), the
\* item for the search agent (line 126), input_data for the writer
\* (line 152) and the report text for the email agent (line 170).
Deterministic ==
    \A a, b \in Runs :
        /\ (traceId[a] # None /\ traceId[b] # None) => traceId[a] = traceId[b]
        /\ (planOutcome[a] # None /\ planOutcome[b] # None /\ query[a] = query[b])
              => planOutcome[a] = planOutcome[b] /\ plan[a] = plan[b]
        /\ \A i \in 1..Len(tasks[a]), j \in 1..Len(tasks[b]) :
              (tasks[a][i].done /\ tasks[b][j].done /\ plan[a][i] = plan[b][j])
                => tasks[a][i].outcome = tasks[b][j].outcome
        /\ (writeOutcome[a] # None /\ writeOutcome[b] # None
               /\ writerInput[a] = writerInput[b])
              => writeOutcome[a] = writeOutcome[b] /\ writerResp[a] = writerResp[b]
        /\ (emailOutcome[a] # None /\ emailInput[a] = emailInput[b])
              => /\ toolLog[b] \in {<<>>, toolLog[a]}
                 /\ emailOutcome[b] # None =>
                      emailOutcome[a] = emailOutcome[b] /\ toolLog[a] = toolLog[b]

\* The same query is submitted in every run.
SameQuery ==
    \A a, b \in Runs :
        (query[a] # None /\ query[b] # None) => query[a] = query[b]

\* The environment of a repeated run against stubs.
Repeatable == SameQuery /\ Deterministic

\* Sequential runs of one query against deterministic stubs.
NextDet ==
    \E r \in Runs :
        \/ Turn(r) /\ Start(r) /\ Repeatable'
        \/ Turn(r) /\ RequestPlan(r) /\ Repeatable'
        \/ Turn(r) /\ PlanReturn(r) /\ Repeatable'
        \/ Turn(r) /\ PlanFail(r) /\ Repeatable'
        \/ Turn(r) /\ RequestSearch(r) /\ Repeatable'
        \/ Turn(r) /\ SearchOk(r) /\ Repeatable'
        \/ Turn(r) /\ SearchFail(r) /\ Repeatable'
        \/ Turn(r) /\ Collect(r) /\ Repeatable'
        \/ Turn(r) /\ RequestWrite(r) /\ Repeatable'
        \/ Turn(r) /\ WriteReturn(r) /\ Repeatable'
        \/ Turn(r) /\ WriteFail(r) /\ Repeatable'
        \/ Turn(r) /\ RequestEmail(r) /\ Repeatable'
        \/ Turn(r) /\ EmailTool(r) /\ Repeatable'
        \/ Turn(r) /\ EmailReturn(r) /\ Repeatable'
        \/ Turn(r) /\ EmailRaise(r) /\ Repeatable'
        \/ Turn(r) /\ RequestReport(r) /\ Repeatable'
        \/ Turn(r) /\ RequestEnd(r) /\ Repeatable'

SpecDet == Init /\ [][NextDet]_vars

\* Plans of the runs that execute side by side hold at most this many items.
MaxConcN == 1

\* Simultaneous queries: the runs are given different queries, and
\* gen_trace_id gives every run an id of its own.
DistinctRuns ==
    \A a, b \in Runs :
        a # b =>
          /\ (query[a] # None /\ query[b] # None) => query[a] # query[b]
          /\ (traceId[a] # None /\ traceId[b] # None) => traceId[a] # traceId[b]

SmallPlans == \A r \in Runs : Len(plan[r]) <= MaxConcN

\* Runs interleaved step by step: each run is driven by its own consumer.
NextConc ==
    \E r \in Runs :
        \/ Start(r) /\ DistinctRuns'
        \/ RequestPlan(r)
        \/ PlanReturn(r) /\ SmallPlans'
        \/ PlanFail(r)
        \/ RequestSearch(r)
        \/ SearchOk(r)
        \/ SearchFail(r)
        \/ Collect(r)
        \/ RequestWrite(r)
        \/ WriteReturn(r)
        \/ WriteFail(r)
        \/ RequestEmail(r)
        \/ EmailTool(r)
        \/ EmailReturn(r)
        \/ EmailRaise(r)
        \/ RequestReport(r)
        \/ RequestEnd(r)

SpecConc == Init /\ [][NextConc]_vars

\* ---------------------------------------------------------------- claims

\* perform_searches has returned to run().
SearchReturned(r) ==
    \/ pc[r] \in {"y_searched", "writing", "y_written", "notifying",
                  "y_emailed", "y_report", "done"}
    \/ failedFrom[r] \in {"WRITING", "NOTIFYING"}

\* The tasks of run r whose search call failed.
FailedTasks(r) == {i \in 1..Len(tasks[r]) : tasks[r][i].outcome = "raise"}

\* The tasks of run r that have not completed.
Unresolved(r) == {i \in 1..Len(tasks[r]) : ~tasks[r][i].done}

SixChunks(r) ==
    <<TraceChunk(traceId[r]), PlannedMsg, SearchedMsg, WrittenMsg, EmailedMsg,
      report[r].markdown_report>>

\* C1: for a plan of N items of which k search calls fail, in every
\* interleaving, perform_searches returns exactly N-k results and has
\* printed exactly N progress ticks; at no time are there more results
\* than items.
C1_ResultAndTickCount ==
    \A r \in Runs :
        /\ Len(results[r]) <= Len(plan[r])
        /\ Len(ticks[r]) <= Len(plan[r])
        /\ SearchReturned(r) =>
             /\ Len(results[r]) = Len(plan[r]) - Cardinality(FailedTasks(r))
             /\ Len(ticks[r]) = Len(plan[r])

C1_Witness ==
    \E r \in Runs :
        /\ SearchReturned(r)
        /\ Len(plan[r]) = MaxN
        /\ Cardinality(FailedTasks(r)) = 1
        /\ Len(results[r]) = MaxN - 1

\* C2: a run in which planning and writing succeed ends with exactly the
\* six chunks trace, planned, searched, written, emailed, report text.
C2_SixChunksWhenPlanAndWriteSucceed ==
    \A r \in Runs :
        (Terminated(r) /\ planOutcome[r] = "ok" /\ writeOutcome[r] = "ok")
            => chunks[r] = SixChunks(r)

\* C3: a failed search call becomes "no result" inside its unit: the run
\* never fails in SEARCHING, the failed unit's result is None, and when
\* perform_searches returns every sibling has completed and every
\* successful summary has been collected.
C3_SearchFailureIsolated ==
    \A r \in Runs :
        /\ failedFrom[r] # "SEARCHING"
        /\ \A i \in FailedTasks(r) : tasks[r][i].result = None
        /\ SearchReturned(r) =>
             \A i \in 1..Len(plan[r]) :
                 /\ tasks[r][i].done
                 /\ tasks[r][i].outcome = "ok" =>
                      \E j \in 1..Len(results[r]) :
                          results[r][j] = Summary(plan[r][i])

C3_Witness ==
    \E r \in Runs :
        /\ SearchReturned(r)
        /\ Len(order[r]) = MaxN
        /\ tasks[r][order[r][1]].outcome = "raise"
        /\ tasks[r][order[r][MaxN]].outcome = "ok"
        /\ results[r] = <<Summary(plan[r][order[r][MaxN]])>>

\* C4: whenever the run is in WRITING or later, no search unit is
\* unresolved: every task has completed and has been awaited.
C4_NoPendingSearchAtWrite ==
    \A r \in Runs :
        (Stage(r) \in {"WRITING", "NOTIFYING", "DONE"}
           \/ failedFrom[r] \in {"WRITING", "NOTIFYING"})
            => /\ Unresolved(r) = {}
               /\ Len(tasks[r]) = Len(plan[r])
               /\ numCompleted[r] = Len(plan[r])

C4_Witness ==
    \E r \in Runs :
        /\ pc[r] = "writing"
        /\ Len(plan[r]) = MaxN
        /\ numCompleted[r] = MaxN

\* C5: a fatal failure of planning or writing (call error or invalid
\* answer) propagates to the caller of run(), and no chunk of that run
\* carries report text.
C5_FatalFailureNoReport ==
    \A r \in Runs :
        /\ planOutcome[r] \in {"error", "invalid"} =>
             pc[r] = "failed" /\ failedFrom[r] = "PLANNING"
        /\ writeOutcome[r] \in {"error", "invalid"} =>
             pc[r] = "failed" /\ failedFrom[r] = "WRITING"
        /\ failedFrom[r] \in {"PLANNING", "WRITING"} =>
             \A i \in 1..Len(chunks[r]) : chunks[r][i] \notin Reports

C5_Witness ==
    \E r \in Runs :
        /\ writeOutcome[r] = "error"
        /\ pc[r] = "failed"
        /\ Len(chunks[r]) = 3
        /\ Len(results[r]) > 0

\* C6: when the writer's answer is malformed or its call errors, the run
\* fails and send_email is never called; send_email is called only after
\* write_report returned a report with all three fields.
C6_NoNotifyAfterWriteFailure ==
    \A r \in Runs :
        /\ writeOutcome[r] \in {"error", "invalid"} =>
             notifyCalls[r] = 0 /\ pc[r] = "failed"
        /\ writerResp[r].fields # ReportFields => notifyCalls[r] = 0
        /\ notifyCalls[r] > 0 =>
             writeOutcome[r] = "ok" /\ report[r].fields = ReportFields

C6_Witness ==
    \E r \in Runs :
        /\ writeOutcome[r] = "invalid"
        /\ "markdown_report" \notin writerResp[r].fields
        /\ pc[r] = "failed"
        /\ notifyCalls[r] = 0

\* C7: whatever status the email provider answers with, the send_email
\* tool answers {status: "success"}; the answer leaves the run in
\* NOTIFYING, and when the email agent's call returns the run emits
\* 'email sent', then the report text, and is DONE.
C7_ProviderStatusMasked ==
    \A r \in Runs :
        /\ \A j \in 1..Len(toolLog[r]) :
               toolLog[r][j].result = [status |-> "success"]
        /\ (toolLog[r] # <<>> /\ emailOutcome[r] = None) => pc[r] = "notifying"
        /\ (toolLog[r] # <<>> /\ emailOutcome[r] = "ok") =>
             /\ Stage(r) = "DONE"
             /\ Len(chunks[r]) >= 5 /\ chunks[r][5] = EmailedMsg
             /\ pc[r] \in {"y_report", "done"} => chunks[r] = SixChunks(r)

C7_Witness ==
    \E r \in Runs :
        /\ pc[r] = "done"
        /\ toolLog[r] # <<>>
        /\ toolLog[r][1].provider >= 400
        /\ chunks[r] = SixChunks(r)

\* C8: FAILED is reached only from PLANNING or WRITING, never from
\* SEARCHING or NOTIFYING.
C8_FailedOnlyFromPlanningOrWriting ==
    \A r \in Runs :
        pc[r] = "failed" => failedFrom[r] \in {"PLANNING", "WRITING"}

\* C9: send_email is called at most once in any run, and exactly once in
\* every run that reaches DONE, however many searches failed.
C9_NotifyExactlyOnce ==
    \A r \in Runs :
        /\ notifyCalls[r] <= 1
        /\ Stage(r) = "DONE" => notifyCalls[r] = 1

C9_Witness ==
    \E r \in Runs :
        /\ Stage(r) = "DONE"
        /\ Len(plan[r]) = MaxN
        /\ Cardinality(FailedTasks(r)) = MaxN
        /\ notifyCalls[r] = 1

\* C10 as claimed: two sequential runs with the same query against
\* deterministic stubs yield the same chunk sequence, whatever the
\* scheduling of their search units.
C10_SameQuerySameChunks ==
    \A a, b \in Runs :
        (Terminated(a) /\ Terminated(b) /\ query[a] = query[b])
            => chunks[a] = chunks[b]

\* C10 as amended: two sequential runs with the same query against
\* deterministic stubs yield the same chunk sequence when their search
\* units complete in the same order.
C10_SameQuerySameOrderSameChunks ==
    \A a, b \in Runs :
        (Terminated(a) /\ Terminated(b) /\ query[a] = query[b]
           /\ order[a] = order[b])
            => chunks[a] = chunks[b]

C10_Witness ==
    \E a, b \in Runs :
        /\ a # b
        /\ pc[a] = "done" /\ pc[b] = "done"
        /\ query[a] = query[b]
        /\ Len(results[a]) = MaxN
        /\ order[a] = order[b]
        /\ order[a][1] # 1
        /\ chunks[a] = chunks[b]

\* The number of times x occurs in a sequence.
Count(seq, x) == Cardinality({j \in 1..Len(seq) : seq[j] = x})

\* Two sequences hold the same elements the same number of times.
SameBag(s, t) ==
    /\ Len(s) = Len(t)
    /\ \A j \in 1..Len(s) : Count(s, s[j]) = Count(t, s[j])

\* Two runs were given the same plan and the same per-item outcomes.
SamePlanAndOutcomes(a, b) ==
    /\ plan[a] = plan[b]
    /\ Len(tasks[a]) = Len(tasks[b])
    /\ \A i \in 1..Len(tasks[a]) : tasks[a][i].outcome = tasks[b][i].outcome

\* C11: for a fixed plan and fixed per-item outcomes, whatever the order
\* in which the search units complete, perform_searches returns the same
\* multiset of successful summaries; only the order of the list differs.
C11_OrderIndependentResults ==
    \A a, b \in Runs :
        (SearchReturned(a) /\ SearchReturned(b) /\ SamePlanAndOutcomes(a, b))
            => SameBag(results[a], results[b])

C11_Witness ==
    \E a, b \in Runs :
        /\ SearchReturned(a) /\ SearchReturned(b)
        /\ SamePlanAndOutcomes(a, b)
        /\ Len(results[a]) = MaxN
        /\ order[a] # order[b]
        /\ results[a] # results[b]
        /\ SameBag(results[a], results[b])

\* The place of a stage in START, PLANNING, ..., DONE.
Rank(stage) ==
    CASE stage = "START" -> 0
      [] stage = "PLANNING" -> 1
      [] stage = "SEARCHING" -> 2
      [] stage = "WRITING" -> 3
      [] stage = "NOTIFYING" -> 4
      [] stage = "DONE" -> 5

\* The work of a stage is in flight only in that stage, and only after
\* the work of the stage before it has returned.
StageWorkOrdered(r) ==
    /\ Unresolved(r) # {} => Stage(r) = "SEARCHING"
    /\ tasks[r] # <<>> => planOutcome[r] = "ok"
    /\ Stage(r) \in {"START", "PLANNING"} =>
         tasks[r] = <<>> /\ writeOutcome[r] = None /\ notifyCalls[r] = 0
    /\ Stage(r) = "SEARCHING" =>
         planOutcome[r] = "ok" /\ writeOutcome[r] = None /\ notifyCalls[r] = 0
    /\ Stage(r) = "WRITING" => notifyCalls[r] = 0
    /\ notifyCalls[r] > 0 => writeOutcome[r] = "ok" /\ SearchReturned(r)
    /\ emailOutcome[r] # None => notifyCalls[r] > 0

\* C12: the stages of a run follow one another in the order START,
\* PLANNING, SEARCHING, WRITING, NOTIFYING, DONE: a stage is left only for
\* the next one (or for FAILED), never for an earlier or a later one, DONE
\* and FAILED are never left, and the work of a stage is in flight only
\* after the work of the stage before it has returned.
C12_StagesSequential ==
    /\ [](\A r \in Runs : StageWorkOrdered(r))
    /\ [][\A r \in Runs :
            Stage(r)' # Stage(r) =>
                /\ Stage(r) \notin {"DONE", "FAILED"}
                /\ Stage(r)' = "FAILED" \/ Rank(Stage(r)') = Rank(Stage(r)) + 1]_vars

C12_Witness ==
    \E r \in Runs :
        /\ pc[r] = "done"
        /\ Len(plan[r]) = MaxN
        /\ FailedTasks(r) = {}
        /\ toolLog[r] = <<>>
        /\ Len(chunks[r]) = 6

\* The progress message of the transition into a stage.
EnterMsg(id, stage) ==
    CASE stage = "PLANNING" -> TraceChunk(id)
      [] stage = "SEARCHING" -> PlannedMsg
      [] stage = "WRITING" -> SearchedMsg
      [] stage = "NOTIFYING" -> WrittenMsg
      [] stage = "DONE" -> EmailedMsg

\* The positions at which run() is suspended in a yield.
YieldPoints == {"y_trace", "y_planned", "y_searched", "y_written", "y_emailed",
                "y_report"}

\* C13: every transition into a stage emits exactly one progress message
\* (the first one carrying the trace id), and the message is with the
\* consumer before the work of the stage entered is started: the run is
\* then suspended in the yield, and while a stage's call is in flight the
\* chunks emitted are as many as the stages entered.  No other step emits
\* a chunk, but for the final report text.
C13_OneMessagePerTransition ==
    /\ [](\A r \in Runs :
            (Stage(r) # "FAILED" /\ pc[r] \notin {"y_report", "done"})
                => Len(chunks[r]) = Rank(Stage(r)))
    /\ [][\A r \in Runs :
            /\ (Stage(r)' # Stage(r) /\ Stage(r)' # "FAILED") =>
                 /\ chunks'[r] = Append(chunks[r], EnterMsg(traceId'[r], Stage(r)'))
                 /\ pc'[r] \in YieldPoints
            /\ (Stage(r)' = Stage(r) \/ Stage(r)' = "FAILED") =>
                 \/ chunks'[r] = chunks[r]
                 \/ /\ pc[r] = "y_emailed" /\ pc'[r] = "y_report"
                    /\ chunks'[r] = Append(chunks[r], report[r].markdown_report)]_vars

C13_Witness ==
    \E r \in Runs :
        /\ pc[r] = "y_written"
        /\ notifyCalls[r] = 0
        /\ Len(chunks[r]) = 4
        /\ chunks[r][4] = WrittenMsg
        /\ chunks[r][1] = TraceChunk(traceId[r])

\* C14: in every interleaving the progress ticks carry the counter values
\* 1, 2, ..., one per awaited task in that order, each with total = N; the
\* counter is the number of ticks printed and never exceeds N.
C14_TicksCountUp ==
    \A r \in Runs :
        /\ numCompleted[r] = Len(ticks[r])
        /\ numCompleted[r] <= Len(plan[r])
        /\ numCompleted[r] <= Len(order[r])
        /\ \A j \in 1..Len(ticks[r]) :
               ticks[r][j] = [completed |-> j, total |-> Len(plan[r])]

C14_Witness ==
    \E r \in Runs :
        /\ Len(ticks[r]) = MaxN
        /\ ticks[r][MaxN].completed = MaxN
        /\ order[r][1] # 1
        /\ FailedTasks(r) # {}

\* write_report has been called.
WriteCalled(r) ==
    \/ pc[r] \in {"writing", "y_written", "notifying", "y_emailed", "y_report",
                  "done"}
    \/ failedFrom[r] \in {"WRITING", "NOTIFYING"}

\* The summaries of the successful tasks among `ord`, in the order of `ord`.
RECURSIVE SuccessfulInOrder(_, _)
SuccessfulInOrder(r, ord) ==
    IF ord = <<>>
      THEN <<>>
      ELSE (IF tasks[r][Head(ord)].outcome = "ok"
              THEN <<Summary(plan[r][Head(ord)])>>
              ELSE <<>>) \o SuccessfulInOrder(r, Tail(ord))

\* C15: the input handed to the writer is the original query and exactly
\* the summaries of the successful searches, none for a failed item, in
\* the order in which their search units completed.
C15_WriterInputInCompletionOrder ==
    \A r \in Runs :
        WriteCalled(r) =>
            /\ writerInput[r].query = query[r]
            /\ writerInput[r].results = SuccessfulInOrder(r, order[r])
            /\ Len(order[r]) = Len(plan[r])

C15_Witness ==
    \E r \in Runs :
        /\ pc[r] = "writing"
        /\ Len(plan[r]) = MaxN
        /\ order[r][1] = MaxN
        /\ FailedTasks(r) = {}
        /\ writerInput[r].results[1] = Summary(plan[r][MaxN])
        /\ Len(writerInput[r].results) = MaxN

\* Everything the model holds of one run.
RunState(r) ==
    <<pc[r], query[r], traceId[r], plan[r], planOutcome[r], tasks[r], order[r],
      results[r], numCompleted[r], ticks[r], chunks[r], writerInput[r],
      writerResp[r], report[r], writeOutcome[r], notifyCalls[r], emailInput[r],
      toolLog[r], emailOutcome[r], failedFrom[r]>>

\* The number of chunks a run alone has yielded at its position.
NChunks(r) ==
    CASE pc[r] = "idle" -> 0
      [] pc[r] \in {"y_trace", "planning"} -> 1
      [] pc[r] \in {"y_planned", "searching"} -> 2
      [] pc[r] \in {"y_searched", "writing"} -> 3
      [] pc[r] \in {"y_written", "notifying"} -> 4
      [] pc[r] = "y_emailed" -> 5
      [] pc[r] \in {"y_report", "done"} -> 6
      [] pc[r] = "failed" /\ failedFrom[r] = "PLANNING" -> 1
      [] pc[r] = "failed" /\ failedFrom[r] = "SEARCHING" -> 2
      [] pc[r] = "failed" /\ failedFrom[r] = "WRITING" -> 3
      [] pc[r] = "failed" /\ failedFrom[r] = "NOTIFYING" -> 4

\* The result list, the counter, the chunks and the outcome of a run are
\* what its own query, its own trace id and the answers to its own calls
\* make them.
OwnState(r) ==
    /\ \A i \in 1..Len(plan[r]) : plan[r][i] = Item(query[r], i)
    /\ numCompleted[r] = Len(ticks[r])
    /\ numCompleted[r] <= Len(order[r])
    /\ results[r] = SuccessfulInOrder(r, SubSeq(order[r], 1, numCompleted[r]))
    /\ \A j \in 1..Len(ticks[r]) :
           ticks[r][j] = [completed |-> j, total |-> Len(plan[r])]
    /\ chunks[r] = SubSeq(SixChunks(r), 1, NChunks(r))
    /\ WriteCalled(r) => writerInput[r].query = query[r]
    /\ pc[r] = "failed" =>
         \/ failedFrom[r] = "PLANNING" /\ planOutcome[r] \in {"error", "invalid"}
         \/ failedFrom[r] = "WRITING" /\ writeOutcome[r] \in {"error", "invalid"}
         \/ failedFrom[r] = "NOTIFYING" /\ emailOutcome[r] = "error"

\* C16: runs of different queries that execute interleaved are
\* independent: every step changes the state of one run only, and each
\* run's result list, completion counter, chunks and outcome are those of
\* its own query and its own calls, as when it runs alone.
C16_ConcurrentRunsIndependent ==
    /\ [](\A r \in Runs : OwnState(r))
    /\ [][\E r \in Runs :
            \A o \in Runs \ {r} : RunState(o)' = RunState(o)]_vars

C16_Witness ==
    \E a, b \in Runs :
        /\ a # b
        /\ pc[a] = "searching"
        /\ FailedTasks(a) # {}
        /\ pc[b] = "y_searched"
        /\ results[b] = <<Summary(Item(query[b], 1))>>
        /\ ticks[b] = <<[completed |-> 1, total |-> 1]>>
        /\ OwnState(a) /\ OwnState(b)

\* perform_searches has been called and no search of the run can give a
\* summary: the plan is empty, or every search call failed.
NoSummaries(r) ==
    /\ pc[r] = "searching" \/ SearchReturned(r) \/ failedFrom[r] = "SEARCHING"
    /\ FailedTasks(r) = 1..Len(plan[r])

\* C17: when the plan is empty or every planned search fails, the run is
\* not aborted by the search stage: perform_searches returns the empty
\* list, the writer is called with the query and no summaries, and a run
\* that reaches DONE has yielded the full six chunks.
C17_AllSearchesFailedStillWrites ==
    \A r \in Runs :
        NoSummaries(r) =>
            /\ failedFrom[r] # "SEARCHING"
            /\ results[r] = <<>>
            /\ pc[r] = "searching" => numCompleted[r] < Len(plan[r])
            /\ WriteCalled(r) => writerInput[r] = WriterInput(query[r], <<>>)
            /\ pc[r] = "done" => chunks[r] = SixChunks(r)

C17_Witness ==
    \E a, b \in Runs :
        /\ NoSummaries(a) /\ NoSummaries(b)
        /\ Len(plan[a]) = 0
        /\ Len(plan[b]) > 0
        /\ \A r \in {a, b} :
              /\ pc[r] = "done"
              /\ writerInput[r] = WriterInput(query[r], <<>>)
              /\ chunks[r] = SixChunks(r)
              /\ Len(chunks[r]) = 6

\* C18: the chunks of a run, ended or not, successful or failed, are a
\* prefix of the six chunks of a successful run; a run that failed in
\* planning has yielded the trace chunk only, a run that failed in writing
\* exactly the trace chunk and the two search status lines, and the
\* "email sent" line is yielded only after the email stage has returned.
C18_ChunksPrefixOfSix ==
    \A r \in Runs :
        /\ Len(chunks[r]) <= 6
        /\ chunks[r] = SubSeq(SixChunks(r), 1, Len(chunks[r]))
        /\ (pc[r] = "failed" /\ failedFrom[r] = "PLANNING") =>
               chunks[r] = <<TraceChunk(traceId[r])>>
        /\ (pc[r] = "failed" /\ failedFrom[r] = "WRITING") =>
               chunks[r] = <<TraceChunk(traceId[r]), PlannedMsg, SearchedMsg>>
        /\ (\E i \in 1..Len(chunks[r]) : chunks[r][i] = EmailedMsg) =>
               emailOutcome[r] = "ok"

C18_Witness ==
    /\ pc[FirstRun] = "failed"
    /\ failedFrom[FirstRun] = "WRITING"
    /\ Len(plan[FirstRun]) = MaxN
    /\ Len(chunks[FirstRun]) = 3
    /\ chunks[FirstRun] = SubSeq(SixChunks(FirstRun), 1, 3)

\* A single run under fair scheduling: every awaited call returns or
\* raises, the event loop resumes every task that can go on, and the
\* consumer asks for the next chunk as long as the stream has not ended.
SpecLive == Init /\ [][Next]_vars /\ WF_vars(Step(FirstRun))

\* C19: when every external call eventually returns or raises and the
\* consumer keeps asking for chunks, a run that was started eventually
\* reaches DONE or FAILED, and in that state none of its search tasks is
\* pending.
C19_RunTerminates ==
    /\ (pc[FirstRun] # "idle") ~> Terminated(FirstRun)
    /\ [](Terminated(FirstRun) => Unresolved(FirstRun) = {})

C19_Witness ==
    /\ Terminated(FirstRun)
    /\ Len(tasks[FirstRun]) = MaxN
    /\ Unresolved(FirstRun) = {}
    /\ FailedTasks(FirstRun) # {}
    /\ numCompleted[FirstRun] = MaxN

====
